---- MODULE Spec2Model ----
(***************************************************************************)
(* A model of the kitcat history-rewriting core: Reset (reset.go), the     *)
(* stash manager and the interactive rebase engine (stash.go).             *)
(*                                                                         *)
(* The repository is the state: the HEAD file, the ref files, the Index,   *)
(* the working tree, commits.log, the object store, the stash stack and    *)
(* the persisted RebaseState.  Every operation is a pure operator from a   *)
(* repository record to a result [st, err]; an action applies one          *)
(* operator to the current repository.                                     *)
(***************************************************************************)
EXTENDS Integers, Sequences, FiniteSets, TLC

VARIABLES HEAD, refs, index, work, commits, objects, stash, rebase, pc, last, edits, ops,
          kills

vars ==
  <<HEAD, refs, index, work, commits, objects, stash, rebase, pc, last, edits, ops, kills>>

(***************************************************************************)
(* Universe and bounds                                                     *)
(***************************************************************************)
Paths == {"a", "b"}
Contents == {"x", "y", "z"}
Blobs == {"1", "2", "3"}
Branches == {"main", "kitcat-rebase-tmp"}
ResetModes == {"soft", "mixed", "hard"}

\* cap on the length of commits.log
MaxCommits == 3
\* cap on the length of commits.log during a rebase
MaxLog == 8
\* cap on the number of edits the user makes: writes and deletions in the working
\* tree, stagings, and lines changed in the todo editor
MaxEdits == 2
\* cap on the number of commands (reset, stash, rebase -i) the user runs
MaxOps == 3
\* cap on the number of times the user starts an interactive rebase
MaxStarts == 2
\* cap on the number of times the process is terminated inside the rebase loop
MaxKills == 1

NoHash == ""
NoId == <<>>
EmptyMap == [p \in {} |-> ""]

\* storage.HashAndStoreFile / storage.ReadObject: digest of a content, content of a digest
HashOf(c) == CASE c = "x" -> "1" [] c = "y" -> "2" [] c = "z" -> "3"
ReadObject(h) == CASE h = "1" -> "x" [] h = "2" -> "y" [] h = "3" -> "z"

\* Go map lookup: the zero value "" for a missing key
Get(m, p) == IF p \in DOMAIN m THEN m[p] ELSE NoHash

MapSet(m, p, v) == [q \in DOMAIN m \cup {p} |-> IF q = p THEN v ELSE m[q]]
MapDel(m, p) == [q \in DOMAIN m \ {p} |-> m[q]]

RefPath(b) == "refs/heads/" \o b
TmpRef == RefPath("kitcat-rebase-tmp")

SymHead(ref) == [ref |-> ref, hash |-> NoId]
DetachedHead(id) == [ref |-> "", hash |-> id]

NoRebase ==
  [active |-> FALSE, HeadName |-> "", Onto |-> NoId, OrigHead |-> NoId,
   TodoSteps |-> <<>>, CurrentStep |-> 0]

Ok(s) == [st |-> s, err |-> ""]
Err(s, e) == [st |-> s, err |-> e]

\* the repository as one record
Cur ==
  [HEAD |-> HEAD, refs |-> refs, index |-> index, work |-> work,
   commits |-> commits, objects |-> objects, stash |-> stash, rebase |-> rebase]

(***************************************************************************)
(* Commit graph and reference store                                        *)
(***************************************************************************)
ZeroCommit == [id |-> NoId, parent |-> NoId, tree |-> EmptyMap, message |-> ""]

HasCommit(s, id) == \E i \in 1..Len(s.commits) : s.commits[i].id = id

FindCommit(s, id) ==
  IF HasCommit(s, id)
  THEN s.commits[CHOOSE i \in 1..Len(s.commits) : s.commits[i].id = id]
  ELSE ZeroCommit

\* hashCommit: the id of a new log entry (its fields include the timestamp)
NewCommitId(s) == <<"c", Len(s.commits) + 1>>

AppendCommit(s, c) == [s EXCEPT !.commits = Append(@, c)]

\* the commit id HEAD resolves to (NoId when the branch file is empty or missing)
readHead(s) ==
  IF s.HEAD.ref # ""
  THEN IF s.HEAD.ref \in DOMAIN s.refs THEN s.refs[s.HEAD.ref] ELSE NoId
  ELSE s.HEAD.hash

GetHeadCommit(s) == FindCommit(s, readHead(s))
HeadCommitFound(s) == HasCommit(s, readHead(s))

\* branch name, or a string starting with "HEAD" when detached
GetHeadState(s) ==
  IF s.HEAD.ref # ""
  THEN CHOOSE b \in Branches : RefPath(b) = s.HEAD.ref
  ELSE "HEAD (detached)"

UpdateBranchPointer(s, id) ==
  IF s.HEAD.ref # ""
  THEN [s EXCEPT !.refs = MapSet(@, s.HEAD.ref, id)]
  ELSE [s EXCEPT !.HEAD = DetachedHead(id)]

(***************************************************************************)
(* Index, working tree, workspace synchronizer                             *)
(***************************************************************************)
\* a tracked file differs from the Index, or the Index differs from HEAD's tree
IsWorkDirDirty(s) ==
  \/ s.index # GetHeadCommit(s).tree
  \/ \E p \in DOMAIN s.index :
       \/ p \notin DOMAIN s.work
       \/ HashOf(s.work[p]) # s.index[p]

\* the set of tracked files that are dirty
DirtyPaths(s) ==
  {p \in Paths :
     \/ Get(s.index, p) # Get(GetHeadCommit(s).tree, p)
     \/ /\ p \in DOMAIN s.index
        /\ (p \notin DOMAIN s.work \/ HashOf(s.work[p]) # s.index[p])}

\* the working tree after the paths `done` of tree T were written and the paths
\* tracked by `old` but absent from T were removed
SyncWork(w, old, T, done) ==
  [p \in (DOMAIN w \ (DOMAIN old \ DOMAIN T)) \cup done |->
     IF p \in done THEN ReadObject(T[p]) ELSE w[p]]

UpdateWorkspaceAndIndex(s, id) ==
  IF ~HasCommit(s, id) THEN Err(s, "commit not found")
  ELSE LET T == FindCommit(s, id).tree
       IN Ok([s EXCEPT !.work = SyncWork(s.work, s.index, T, DOMAIN T),
                       !.index = T])

\* a synchronisation that stops with an I/O error after writing the paths `done`
UpdateWorkspaceFailing(s, id, done) ==
  LET T == FindCommit(s, id).tree
  IN Err([s EXCEPT !.work = SyncWork(s.work, EmptyMap, T, done \cap DOMAIN T)],
         "write failed")

(***************************************************************************)
(* reset.go                                                                *)
(***************************************************************************)
\* env.fail names the step that meets an I/O error: "none", "index", "workspace"
NoFail == [fail |-> "none", done |-> {}]

\* resetIndex writing the target's entries over the Index without dropping the
\* paths the target does not have
resetIndexMerges(s, commitHash, env) ==
  IF ~HasCommit(s, commitHash) THEN Err(s, "commit not found")
  ELSE IF env.fail = "index" THEN Err(s, "write index failed")
  ELSE LET tree == FindCommit(s, commitHash).tree
       IN Ok([s EXCEPT !.index =
                [p \in DOMAIN @ \cup DOMAIN tree |->
                   IF p \in DOMAIN tree THEN tree[p] ELSE @[p]]])

resetIndex(s, commitHash, env) ==
  IF ~HasCommit(s, commitHash) THEN Err(s, "commit not found")
  ELSE IF env.fail = "index" THEN Err(s, "write index failed")
  ELSE Ok([s EXCEPT !.index = FindCommit(s, commitHash).tree])

resetWorkspace(s, commitHash, env) ==
  IF env.fail = "workspace"
  THEN UpdateWorkspaceFailing(s, commitHash, env.done)
  ELSE UpdateWorkspaceAndIndex(s, commitHash)

\* Reset moving the branch HEAD names, when it names one, instead of detaching HEAD
ResetMovesBranch(s, commitHash, mode, env) ==
  IF ~HasCommit(s, commitHash) THEN Err(s, "fatal: invalid commit")
  ELSE
    LET s1 == IF s.HEAD.ref # ""
              THEN [s EXCEPT !.refs = MapSet(@, s.HEAD.ref, commitHash)]
              ELSE [s EXCEPT !.HEAD = DetachedHead(commitHash)]
    IN CASE mode = "soft" -> Ok(s1)
         [] mode = "mixed" ->
              LET r == resetIndex(s1, commitHash, env)
              IN IF r.err # "" THEN Err(s, "failed to reset index") ELSE Ok(r.st)
         [] mode = "hard" ->
              LET r == resetIndex(s1, commitHash, env)
              IN IF r.err # "" THEN Err(s, "failed to reset index")
                 ELSE LET w == resetWorkspace(r.st, commitHash, env)
                      IN IF w.err # "" THEN Err(s, "failed to reset workspace")
                         ELSE Ok(w.st)
         [] OTHER -> Err(s, "unknown reset mode")

\* Reset without the restoring writes of HEAD on the failure paths
ResetKeepsMovedHead(s, commitHash, mode, env) ==
  IF ~HasCommit(s, commitHash) THEN Err(s, "fatal: invalid commit")
  ELSE
    LET s1 == [s EXCEPT !.HEAD = DetachedHead(commitHash)]
    IN CASE mode = "soft" -> Ok(s1)
         [] mode = "mixed" ->
              LET r == resetIndex(s1, commitHash, env)
              IN IF r.err # "" THEN Err(r.st, "failed to reset index") ELSE Ok(r.st)
         [] mode = "hard" ->
              LET r == resetIndex(s1, commitHash, env)
              IN IF r.err # ""
                 THEN Err(r.st, "failed to reset index")
                 ELSE LET w == resetWorkspace(r.st, commitHash, env)
                      IN IF w.err # ""
                         THEN Err(w.st, "failed to reset workspace")
                         ELSE Ok(w.st)
         [] OTHER -> Err(s1, "unknown reset mode")

Reset(s, commitHash, mode, env) ==
  IF ~HasCommit(s, commitHash) THEN Err(s, "fatal: invalid commit")
  ELSE
    LET oldHead == s.HEAD
        s1 == [s EXCEPT !.HEAD = DetachedHead(commitHash)]
    IN CASE mode = "soft" -> Ok(s1)
         [] mode = "mixed" ->
              LET r == resetIndex(s1, commitHash, env)
              IN IF r.err # ""
                 THEN Err([r.st EXCEPT !.HEAD = oldHead], "failed to reset index")
                 ELSE Ok(r.st)
         [] mode = "hard" ->
              LET r == resetIndex(s1, commitHash, env)
              IN IF r.err # ""
                 THEN Err([r.st EXCEPT !.HEAD = oldHead], "failed to reset index")
                 ELSE LET w == resetWorkspace(r.st, commitHash, env)
                      IN IF w.err # ""
                         THEN Err([w.st EXCEPT !.HEAD = oldHead],
                                  "failed to reset workspace")
                         ELSE Ok(w.st)
         [] OTHER -> Err([s1 EXCEPT !.HEAD = oldHead], "unknown reset mode")

(***************************************************************************)
(* stash.go: the stash manager                                             *)
(***************************************************************************)
PushStash(s, id) == [s EXCEPT !.stash = <<id>> \o @]

\* Step 5 of StashPush left out: the Index is stashed as it stands
RehashNothing(s) == s.index

\* Step 5 of StashPush: re-hash every tracked file that exists on disk
RehashTracked(s) ==
  [p \in DOMAIN s.index |->
     IF p \in DOMAIN s.work THEN HashOf(s.work[p]) ELSE s.index[p]]

WipMessage(branchName, message, headCommit) ==
  "WIP on " \o branchName \o ": " \o
     (IF message # "" THEN message ELSE headCommit.message)

\* StashPush without Step 3, the check that there is something to stash
StashPushCleanTree(s, message, env) ==
  IF ~HeadCommitFound(s) THEN Err(s, "cannot stash: no commits yet")
  ELSE
    LET headCommit == GetHeadCommit(s)
        branchName == GetHeadState(s)
        s1 == [s EXCEPT !.index = RehashTracked(s)]
        stashCommit ==
          [id |-> NewCommitId(s1), parent |-> headCommit.id, tree |-> s1.index,
           message |-> WipMessage(branchName, message, headCommit)]
        s2 == AppendCommit(s1, stashCommit)
        s3 == PushStash(s2, stashCommit.id)
        r == Reset(s3, headCommit.id, "hard", env)
    IN IF r.err # ""
       THEN Err(r.st, "failed to reset workspace after stashing")
       ELSE Ok(r.st)

\* StashPush without Step 12, the hard reset to HEAD
StashPushKeepsWorkspace(s, message, env) ==
  IF ~HeadCommitFound(s) THEN Err(s, "cannot stash: no commits yet")
  ELSE IF ~IsWorkDirDirty(s) THEN Err(s, "nothing to stash, working tree clean")
  ELSE
    LET headCommit == GetHeadCommit(s)
        branchName == GetHeadState(s)
        s1 == [s EXCEPT !.index = RehashTracked(s)]
        stashCommit ==
          [id |-> NewCommitId(s1), parent |-> headCommit.id, tree |-> s1.index,
           message |-> WipMessage(branchName, message, headCommit)]
        s2 == AppendCommit(s1, stashCommit)
        s3 == PushStash(s2, stashCommit.id)
        r == Ok(s3)
    IN IF r.err # ""
       THEN Err(r.st, "failed to reset workspace after stashing")
       ELSE Ok(r.st)

StashPush(s, message, env) ==
  IF ~HeadCommitFound(s) THEN Err(s, "cannot stash: no commits yet")
  ELSE IF ~IsWorkDirDirty(s) THEN Err(s, "nothing to stash, working tree clean")
  ELSE
    LET headCommit == GetHeadCommit(s)
        branchName == GetHeadState(s)
        s1 == [s EXCEPT !.index = RehashTracked(s)]
        stashCommit ==
          [id |-> NewCommitId(s1), parent |-> headCommit.id, tree |-> s1.index,
           message |-> WipMessage(branchName, message, headCommit)]
        s2 == AppendCommit(s1, stashCommit)
        s3 == PushStash(s2, stashCommit.id)
        r == Reset(s3, headCommit.id, "hard", env)
    IN IF r.err # ""
       THEN Err(r.st, "failed to reset workspace after stashing")
       ELSE Ok(r.st)

\* StashPop without Step 4, the check that the working tree is clean
StashPopOverDirtyTree(s) ==
  IF s.stash = <<>> THEN Err(s, "no stash entries found")
  ELSE
    LET stashHash == Head(s.stash)
        s1 == [s EXCEPT !.stash = Tail(@)]
    IN IF ~HasCommit(s1, stashHash) THEN Err(s1, "stash commit not found")
       ELSE LET r == UpdateWorkspaceAndIndex(s1, stashHash)
            IN IF r.err # "" THEN Err(r.st, "failed to apply stash") ELSE Ok(r.st)

StashPop(s) ==
  IF s.stash = <<>> THEN Err(s, "no stash entries found")
  ELSE
    LET stashHash == Head(s.stash)
        s1 == [s EXCEPT !.stash = Tail(@)]
    IN IF ~HasCommit(s1, stashHash) THEN Err(s1, "stash commit not found")
       ELSE IF IsWorkDirDirty(s1)
       THEN Err(s1, "your local changes would be overwritten by stash pop")
       ELSE LET r == UpdateWorkspaceAndIndex(s1, stashHash)
            IN IF r.err # "" THEN Err(r.st, "failed to apply stash") ELSE Ok(r.st)

\* StashDrop removing the top entry whatever the index
StashDropTop(s, idx) ==
  IF idx < 0 \/ idx >= Len(s.stash) THEN Err(s, "invalid stash index")
  ELSE Ok([s EXCEPT !.stash = Tail(@)])

StashDrop(s, idx) ==
  IF idx < 0 \/ idx >= Len(s.stash) THEN Err(s, "invalid stash index")
  ELSE
    LET newStashes == [k \in 1..(Len(s.stash) - 1) |->
                         IF k < idx + 1 THEN s.stash[k] ELSE s.stash[k + 1]]
    IN Ok([s EXCEPT !.stash = newStashes])

\* StashApply removing the entry it applied, as pop does
StashApplyDropsEntry(s, idx) ==
  IF idx < 0 \/ idx >= Len(s.stash) THEN Err(s, "invalid stash index")
  ELSE
    LET stashHash == s.stash[idx + 1]
    IN IF IsWorkDirDirty(s)
       THEN Err(s, "your local changes would be overwritten by stash apply")
       ELSE LET r == UpdateWorkspaceAndIndex(StashDrop(s, idx).st, stashHash)
            IN IF r.err # "" THEN Err(r.st, "failed to apply stash") ELSE Ok(r.st)

StashApply(s, idx) ==
  IF idx < 0 \/ idx >= Len(s.stash) THEN Err(s, "invalid stash index")
  ELSE
    LET stashHash == s.stash[idx + 1]
    IN IF IsWorkDirDirty(s)
       THEN Err(s, "your local changes would be overwritten by stash apply")
       ELSE LET r == UpdateWorkspaceAndIndex(s, stashHash)
            IN IF r.err # "" THEN Err(r.st, "failed to apply stash") ELSE Ok(r.st)

StashClear(s) == Ok([s EXCEPT !.stash = <<>>])

(***************************************************************************)
(* Staging and committing (core.AddFile, core.RemoveFile, core.Commit)     *)
(***************************************************************************)
AddFile(s, path) ==
  IF path \notin DOMAIN s.work THEN Err(s, "file does not exist")
  ELSE Ok([s EXCEPT !.index = MapSet(@, path, HashOf(s.work[path]))])

\* RemoveFile(path, false): the scoped index update fails for an untracked path
RemoveFile(s, path) ==
  IF path \notin DOMAIN s.index
  THEN Err(s, "pathspec did not match any files")
  ELSE Ok([s EXCEPT !.work = MapDel(@, path), !.index = MapDel(@, path)])

Commit(s, message) ==
  LET parentId == readHead(s)
  IN IF HasCommit(s, parentId) /\ FindCommit(s, parentId).tree = s.index
     THEN Err(s, "nothing to commit, working tree clean")
     ELSE LET c == [id |-> NewCommitId(s), parent |-> parentId,
                    tree |-> s.index, message |-> message]
          IN Ok(UpdateBranchPointer(AppendCommit(s, c), c.id))

(***************************************************************************)
(* stash.go: cherry-pick and conflict detection                            *)
(***************************************************************************)
getChanges(s, parentHash, childHash) ==
  LET parentTree == IF parentHash # NoId /\ HasCommit(s, parentHash)
                    THEN FindCommit(s, parentHash).tree ELSE EmptyMap
      childTree == FindCommit(s, childHash).tree
      changed == {p \in DOMAIN childTree :
                    p \notin DOMAIN parentTree \/ parentTree[p] # childTree[p]}
      deleted == DOMAIN parentTree \ DOMAIN childTree
  IN [p \in changed \cup deleted |->
        [OldHash |-> Get(parentTree, p), NewHash |-> Get(childTree, p)]]

\* the body of applyChanges' loop for one path
applyChange(s, path, change, headTree) ==
  IF change.NewHash = NoHash
  THEN IF path \in DOMAIN headTree /\ headTree[path] # change.OldHash
       THEN Err(s, "conflict: deleted in incoming commit, but modified in HEAD")
       ELSE RemoveFile(s, path)
  ELSE IF path \in DOMAIN headTree /\ headTree[path] # change.OldHash
       THEN Err(s, "conflict: modified in incoming commit, but modified in HEAD")
       ELSE IF path \notin DOMAIN headTree /\ change.OldHash # NoHash
       THEN Err(s, "conflict: modified in incoming commit, but deleted in HEAD")
       ELSE AddFile([s EXCEPT !.work = MapSet(@, path, ReadObject(change.NewHash))],
                    path)

RECURSIVE applyLoop(_, _, _, _)
applyLoop(s, changes, headTree, order) ==
  IF order = <<>> THEN Ok(s)
  ELSE LET r == applyChange(s, Head(order), changes[Head(order)], headTree)
       IN IF r.err # "" THEN r
          ELSE applyLoop(r.st, changes, headTree, Tail(order))

\* applyChanges undoing the writes already made when a path fails
applyChangesRollsBack(s, changes, order) ==
  LET r == applyLoop(s, changes, GetHeadCommit(s).tree, order)
  IN IF r.err # "" THEN Err(s, r.err) ELSE r

\* order: the order in which Go's map iteration yields the changed paths
applyChanges(s, changes, order) ==
  applyLoop(s, changes, GetHeadCommit(s).tree, order)

\* every order in which the paths of a map can be iterated
Orders(S) ==
  {o \in UNION {[1..n -> S] : n \in {Cardinality(S)}} :
     \A i, j \in DOMAIN o : i # j => o[i] # o[j]}

cherryPick(s, hash, noCommit, order) ==
  IF ~HasCommit(s, hash) THEN Err(s, "commit not found")
  ELSE
    LET commit == FindCommit(s, hash)
        r == applyChanges(s, getChanges(s, commit.parent, hash), order)
    IN IF r.err # "" THEN r
       ELSE IF noCommit THEN r
       ELSE LET c == Commit(r.st, commit.message)
            IN IF c.err = "nothing to commit, working tree clean"
               THEN Ok(c.st) ELSE c

(***************************************************************************)
(* stash.go: replacement commits                                           *)
(***************************************************************************)
ObjectId(s, content) ==
  IF \E k \in 1..Len(s.objects) : s.objects[k] = content
  THEN <<"o", CHOOSE k \in 1..Len(s.objects) : s.objects[k] = content>>
  ELSE <<"o", Len(s.objects) + 1>>

\* saveObject: content-addressed write under .kitcat/objects
saveObject(s, content) ==
  IF \E k \in 1..Len(s.objects) : s.objects[k] = content
  THEN s ELSE [s EXCEPT !.objects = Append(@, content)]

\* amendCommitMessage changing the message of the commit's entry in commits.log
amendCommitMessageInPlace(s, commitID, newVal) ==
  IF ~HasCommit(s, commitID) THEN Err(s, "commit not found")
  ELSE Ok([s EXCEPT !.commits =
             [k \in 1..Len(@) |->
                IF @[k].id = commitID THEN [@[k] EXCEPT !.message = newVal] ELSE @[k]]])

amendCommitMessage(s, commitID, newVal) ==
  IF ~HasCommit(s, commitID) THEN Err(s, "commit not found")
  ELSE LET c == FindCommit(s, commitID)
           content == [tree |-> c.tree, parent |-> c.parent, message |-> newVal]
       IN Ok(UpdateBranchPointer(saveObject(s, content), ObjectId(s, content)))

amendCommit(s, prevHead, newMsg) ==
  LET content == [tree |-> s.index, parent |-> prevHead.parent, message |-> newMsg]
  IN Ok(UpdateBranchPointer(saveObject(s, content), ObjectId(s, content)))

\* promptForMessage: the editor returns the default message or an edited one
promptForMessage(defaultMsg, edited) ==
  IF edited THEN "reworded" ELSE defaultMsg

executePick(s, hash, order) == cherryPick(s, hash, FALSE, order)

executeReword(s, hash, order, edited) ==
  LET r == cherryPick(s, hash, FALSE, order)
  IN IF r.err # "" THEN r
     ELSE LET head == GetHeadCommit(r.st)
          IN amendCommitMessage(r.st, head.id, promptForMessage(head.message, edited))

executeSquash(s, hash, order) ==
  LET r == cherryPick(s, hash, TRUE, order)
  IN IF r.err # "" THEN r
     ELSE LET prevHead == GetHeadCommit(r.st)
              targetCommit == FindCommit(r.st, hash)
          IN amendCommit(r.st, prevHead,
                         prevHead.message \o "\n\n" \o targetCommit.message)

(***************************************************************************)
(* stash.go: the rebase engine                                             *)
(***************************************************************************)
IsRebaseInProgress(s) == s.rebase.active
SaveRebaseState(s, state) == [s EXCEPT !.rebase = state]
AdvanceRebaseStep(s, state) ==
  SaveRebaseState(s, [state EXCEPT !.CurrentStep = @ + 1])
ClearRebaseState(s) == [s EXCEPT !.rebase = NoRebase]

\* HEAD names a branch whose ref file does not exist
ReadHeadFails(s) == s.HEAD.ref # "" /\ s.HEAD.ref \notin DOMAIN s.refs

\* the result of a command: the repository, the error returned, the error of the
\* step that stopped the loop, and whether RunRebaseLoop goes on
Done(r) == [st |-> r.st, err |-> r.err, stepErr |-> "", pc |-> "idle"]
Stopped(s, e) == [st |-> s, err |-> "", stepErr |-> e, pc |-> "idle"]
Looping(s) == [st |-> s, err |-> "", stepErr |-> "", pc |-> "loop"]

RECURSIVE walkParents(_, _, _, _)
walkParents(s, start, curr, chain) ==
  IF curr = NoId \/ curr = start THEN Ok(chain)
  ELSE IF ~HasCommit(s, curr) THEN Err(<<>>, "commit not found")
  ELSE IF FindCommit(s, curr).parent = NoId THEN Ok(Append(chain, curr))
  ELSE walkParents(s, start, FindCommit(s, curr).parent, Append(chain, curr))

Reverse(q) == [i \in 1..Len(q) |-> q[Len(q) + 1 - i]]

\* the commits from start (exclusive) back from end (inclusive), oldest first
getCommitsBetween(s, start, end) ==
  LET r == walkParents(s, start, end, <<>>)
  IN IF r.err # "" THEN r ELSE Ok(Reverse(r.st))

generateTodo(s, hashes) ==
  [i \in 1..Len(hashes) |-> <<"pick", hashes[i], FindCommit(s, hashes[i]).message>>]

IsTodoStep(line) == line # <<>> /\ line[1] # "#"
parseTodo(lines) == SelectSeq(lines, IsTodoStep)

finishRebase(s, state) ==
  IF ReadHeadFails(s) THEN Err(s, "unable to read HEAD")
  ELSE
    LET headHash == readHead(s)
        s1 == IF state.HeadName # ""
              THEN [s EXCEPT !.HEAD = SymHead(state.HeadName),
                             !.refs = MapSet(@, state.HeadName, headHash)]
              ELSE s
    IN Ok(ClearRebaseState([s1 EXCEPT !.refs = MapDel(@, TmpRef)]))

\* the switch of RunRebaseLoop with the drop case falling into the pick case
executeStepDropPicks(s, action, commitHash, order, edited) ==
  CASE action \in {"pick", "p", "drop", "d"} -> executePick(s, commitHash, order)
    [] action \in {"reword", "r"} -> executeReword(s, commitHash, order, edited)
    [] action \in {"squash", "s"} -> executeSquash(s, commitHash, order)
    [] OTHER -> Ok(s)

\* the switch of RunRebaseLoop with the default case falling into the pick case
executeStepUnknownPicks(s, action, commitHash, order, edited) ==
  CASE action \in {"pick", "p"} -> executePick(s, commitHash, order)
    [] action \in {"reword", "r"} -> executeReword(s, commitHash, order, edited)
    [] action \in {"squash", "s"} -> executeSquash(s, commitHash, order)
    [] action \in {"drop", "d"} -> Ok(s)
    [] OTHER -> executePick(s, commitHash, order)

\* the switch of RunRebaseLoop
executeStep(s, action, commitHash, order, edited) ==
  CASE action \in {"pick", "p"} -> executePick(s, commitHash, order)
    [] action \in {"reword", "r"} -> executeReword(s, commitHash, order, edited)
    [] action \in {"squash", "s"} -> executeSquash(s, commitHash, order)
    [] action \in {"drop", "d"} -> Ok(s)
    [] OTHER -> Ok(s)

\* RunRebaseLoop going back to the first step after the last one
RunRebaseLoopWrapsAround(s, order, edited) ==
  IF ~IsRebaseInProgress(s) THEN Done(Err(s, "no rebase in progress"))
  ELSE
    LET state == s.rebase
        next == [state EXCEPT !.CurrentStep = (@ + 1) % Len(state.TodoSteps)]
    IN IF state.CurrentStep >= Len(state.TodoSteps)
       THEN Done(finishRebase(s, state))
       ELSE
         LET parts == state.TodoSteps[state.CurrentStep + 1]
         IN IF Len(parts) < 2 THEN Looping(SaveRebaseState(s, next))
            ELSE LET r == executeStep(s, parts[1], parts[2], order, edited)
                 IN IF r.err # "" THEN Stopped(r.st, r.err)
                    ELSE Looping(SaveRebaseState(r.st, next))

\* one iteration of RunRebaseLoop that advances the step index after a failed step
\* as after a successful one
RunRebaseLoopSkipsFailedStep(s, order, edited) ==
  IF ~IsRebaseInProgress(s) THEN Done(Err(s, "no rebase in progress"))
  ELSE
    LET state == s.rebase
    IN IF state.CurrentStep >= Len(state.TodoSteps)
       THEN Done(finishRebase(s, state))
       ELSE
         LET parts == state.TodoSteps[state.CurrentStep + 1]
         IN IF Len(parts) < 2 THEN Looping(AdvanceRebaseStep(s, state))
            ELSE LET r == executeStep(s, parts[1], parts[2], order, edited)
                 IN IF r.err # "" THEN Stopped(AdvanceRebaseStep(r.st, state), r.err)
                    ELSE Looping(AdvanceRebaseStep(r.st, state))

\* one iteration of RunRebaseLoop
RunRebaseLoop(s, order, edited) ==
  IF ~IsRebaseInProgress(s) THEN Done(Err(s, "no rebase in progress"))
  ELSE
    LET state == s.rebase
    IN IF state.CurrentStep >= Len(state.TodoSteps)
       THEN Done(finishRebase(s, state))
       ELSE
         LET parts == state.TodoSteps[state.CurrentStep + 1]
         IN IF Len(parts) < 2 THEN Looping(AdvanceRebaseStep(s, state))
            ELSE LET r == executeStep(s, parts[1], parts[2], order, edited)
                 IN IF r.err # "" THEN Stopped(r.st, r.err)
                    ELSE Looping(AdvanceRebaseStep(r.st, state))

\* steps: the todo list as the editor left it, parsed
\* RebaseInteractive without the lookup of the base commit
RebaseInteractiveAnyBase(s, commitHash, steps) ==
  IF IsWorkDirDirty(s) THEN Done(Err(s, "cannot rebase: you have unstaged changes"))
  ELSE IF ReadHeadFails(s) THEN Done(Err(s, "unable to read HEAD"))
  ELSE
    LET ontoCommit == FindCommit(s, commitHash)
        headState == GetHeadState(s)
        headHash == readHead(s)
        rebaseHeadNameVal ==
          IF s.HEAD.ref # "" THEN RefPath(headState) ELSE ""
        between == getCommitsBetween(s, ontoCommit.id, headHash)
    IN IF between.err # "" THEN Done(Err(s, between.err))
       ELSE IF Len(between.st) = 0 THEN Done(Ok(s))
       ELSE IF Len(steps) = 0 THEN Done(Ok(s))
       ELSE
         LET state == [active |-> TRUE, HeadName |-> rebaseHeadNameVal,
                       Onto |-> ontoCommit.id, OrigHead |-> headHash,
                       TodoSteps |-> steps, CurrentStep |-> 0]
             s1 == SaveRebaseState(s, state)
             s2 == [s1 EXCEPT !.refs = MapSet(@, TmpRef, ontoCommit.id),
                              !.HEAD = SymHead(TmpRef)]
             r == UpdateWorkspaceAndIndex(s2, ontoCommit.id)
         IN IF r.err # "" THEN Done(Err(r.st, "failed to checkout base"))
            ELSE Looping(r.st)

\* RebaseInteractive recording the base as the original HEAD
RebaseInteractiveForgetsHead(s, commitHash, steps) ==
  IF IsWorkDirDirty(s) THEN Done(Err(s, "cannot rebase: you have unstaged changes"))
  ELSE IF ~HasCommit(s, commitHash) THEN Done(Err(s, "invalid base commit"))
  ELSE IF ReadHeadFails(s) THEN Done(Err(s, "unable to read HEAD"))
  ELSE
    LET ontoCommit == FindCommit(s, commitHash)
        headState == GetHeadState(s)
        headHash == readHead(s)
        rebaseHeadNameVal ==
          IF s.HEAD.ref # "" THEN RefPath(headState) ELSE ""
        between == getCommitsBetween(s, ontoCommit.id, headHash)
    IN IF between.err # "" THEN Done(Err(s, between.err))
       ELSE IF Len(between.st) = 0 THEN Done(Ok(s))
       ELSE IF Len(steps) = 0 THEN Done(Ok(s))
       ELSE
         LET state == [active |-> TRUE, HeadName |-> rebaseHeadNameVal,
                       Onto |-> ontoCommit.id, OrigHead |-> ontoCommit.id,
                       TodoSteps |-> steps, CurrentStep |-> 0]
             s1 == SaveRebaseState(s, state)
             s2 == [s1 EXCEPT !.refs = MapSet(@, TmpRef, ontoCommit.id),
                              !.HEAD = SymHead(TmpRef)]
             r == UpdateWorkspaceAndIndex(s2, ontoCommit.id)
         IN IF r.err # "" THEN Done(Err(r.st, "failed to checkout base"))
            ELSE Looping(r.st)

RebaseInteractive(s, commitHash, steps) ==
  IF IsWorkDirDirty(s) THEN Done(Err(s, "cannot rebase: you have unstaged changes"))
  ELSE IF ~HasCommit(s, commitHash) THEN Done(Err(s, "invalid base commit"))
  ELSE IF ReadHeadFails(s) THEN Done(Err(s, "unable to read HEAD"))
  ELSE
    LET ontoCommit == FindCommit(s, commitHash)
        headState == GetHeadState(s)
        headHash == readHead(s)
        rebaseHeadNameVal ==
          IF s.HEAD.ref # "" THEN RefPath(headState) ELSE ""
        between == getCommitsBetween(s, ontoCommit.id, headHash)
    IN IF between.err # "" THEN Done(Err(s, between.err))
       ELSE IF Len(between.st) = 0 THEN Done(Ok(s))
       ELSE IF Len(steps) = 0 THEN Done(Ok(s))
       ELSE
         LET state == [active |-> TRUE, HeadName |-> rebaseHeadNameVal,
                       Onto |-> ontoCommit.id, OrigHead |-> headHash,
                       TodoSteps |-> steps, CurrentStep |-> 0]
             s1 == SaveRebaseState(s, state)
             s2 == [s1 EXCEPT !.refs = MapSet(@, TmpRef, ontoCommit.id),
                              !.HEAD = SymHead(TmpRef)]
             r == UpdateWorkspaceAndIndex(s2, ontoCommit.id)
         IN IF r.err # "" THEN Done(Err(r.st, "failed to checkout base"))
            ELSE Looping(r.st)

\* RebaseContinue finishing the rebase when no step remains, as the loop does
RebaseContinueFinishes(s, edited) ==
  IF ~IsRebaseInProgress(s) THEN Done(Err(s, "no rebase in progress"))
  ELSE IF s.rebase.CurrentStep >= Len(s.rebase.TodoSteps)
  THEN Done(finishRebase(s, s.rebase))
  ELSE Looping(AdvanceRebaseStep(s, s.rebase))

RebaseContinue(s, edited) ==
  IF ~IsRebaseInProgress(s) THEN Done(Err(s, "no rebase in progress"))
  ELSE
    LET state == s.rebase
    IN IF state.CurrentStep >= Len(state.TodoSteps)
       THEN Done(Err(s, "no steps remaining"))
       ELSE
         LET parts == state.TodoSteps[state.CurrentStep + 1]
         IN IF Len(parts) < 2 THEN Done(Ok(AdvanceRebaseStep(s, state)))
            ELSE
              LET cmd == parts[1]
                  originalCommit == FindCommit(s, parts[2])
                  msg == originalCommit.message
                  committed == Commit(s, msg).st
                  newMsg == promptForMessage(msg, edited)
                  r == CASE cmd = "pick" -> Ok(committed)
                         [] cmd = "reword" ->
                              IF newMsg # msg
                              THEN amendCommitMessage(committed, readHead(committed),
                                                      newMsg)
                              ELSE Ok(committed)
                         [] cmd = "squash" ->
                              amendCommit(s, GetHeadCommit(s),
                                  GetHeadCommit(s).message \o "\n\n" \o msg)
                         [] OTHER -> Ok(s)
              IN IF r.err # "" THEN Done(r)
                 ELSE Looping(AdvanceRebaseStep(r.st, state))

RebaseAbort(s) ==
  IF ~IsRebaseInProgress(s) THEN Err(s, "no rebase in progress")
  ELSE
    LET state == s.rebase
        r == IF state.HeadName # ""
             THEN UpdateWorkspaceAndIndex(
                    [s EXCEPT !.HEAD = SymHead(state.HeadName),
                              !.refs = MapSet(@, state.HeadName, state.OrigHead)],
                    state.OrigHead)
             ELSE Reset(s, state.OrigHead, "hard", NoFail)
    IN IF r.err # "" THEN r
       ELSE Ok(ClearRebaseState([r.st EXCEPT !.refs = MapDel(@, TmpRef)]))

(***************************************************************************)
(* Actions                                                                 *)
(***************************************************************************)
\* the tag of an operation that records nothing but its name and outcome
NoTag == [kind |-> "none"]

\* the repository becomes r.st; last records the operation, the error it
\* returned and, in tag, its arguments and what it started from
Apply(r, op, arg) ==
  /\ HEAD' = r.st.HEAD
  /\ refs' = r.st.refs
  /\ index' = r.st.index
  /\ work' = r.st.work
  /\ commits' = r.st.commits
  /\ objects' = r.st.objects
  /\ stash' = r.st.stash
  /\ rebase' = r.st.rebase
  /\ last' = [op |-> op, err |-> r.err, tag |-> arg]

CommitIds == {commits[i].id : i \in 1..Len(commits)}
UnknownId == <<"c", 0>>

\* the user edits a file of the working tree
UserWrite ==
  /\ pc = "idle" /\ edits < MaxEdits
  /\ \E p \in Paths, c \in Contents :
       /\ Get(work, p) # c
       /\ Apply(Ok([Cur EXCEPT !.work = MapSet(@, p, c)]), "write", NoTag)
  /\ edits' = edits + 1
  /\ UNCHANGED <<pc, ops, kills>>

\* the user deletes a file of the working tree
UserRemove ==
  /\ pc = "idle" /\ edits < MaxEdits
  /\ \E p \in DOMAIN work :
       Apply(Ok([Cur EXCEPT !.work = MapDel(@, p)]), "remove", NoTag)
  /\ edits' = edits + 1
  /\ UNCHANGED <<pc, ops, kills>>

\* kitcat add <path>: stage the file's current content
UserAdd ==
  /\ pc = "idle" /\ edits < MaxEdits
  /\ \E p \in DOMAIN work :
       /\ Get(index, p) # HashOf(work[p])
       /\ Apply(Ok([Cur EXCEPT !.index = MapSet(@, p, HashOf(work[p]))]),
                "add", NoTag)
  /\ edits' = edits + 1
  /\ UNCHANGED <<pc, ops, kills>>

FailEnvs ==
  {NoFail, [fail |-> "index", done |-> {}]}
    \cup {[fail |-> "workspace", done |-> d] : d \in {{}, {"a"}}}

DoReset ==
  /\ pc = "idle" /\ ops < MaxOps
  /\ \E id \in CommitIds \cup {UnknownId}, mode \in ResetModes \cup {"bogus"},
        env \in FailEnvs :
       /\ env.fail = "index" => mode \in {"mixed", "hard"}
       /\ env.fail = "workspace" => mode = "hard"
       /\ id = UnknownId => mode = "hard" /\ env = NoFail
       /\ Apply(Reset(Cur, id, mode, env), "Reset",
                [mode |-> mode, target |-> id, fail |-> env.fail])
  /\ ops' = ops + 1
  /\ UNCHANGED <<pc, edits, kills>>

\* what a stash push started from, when exactly one tracked file was dirty
PrePush ==
  IF Cardinality(DirtyPaths(Cur)) = 1
  THEN <<[index |-> index, work |-> work, stash |-> stash,
          dirty |-> CHOOSE p \in DirtyPaths(Cur) : TRUE]>>
  ELSE <<>>

DoStashPush ==
  /\ pc = "idle" /\ ops < MaxOps
  /\ Len(commits) < MaxCommits
  /\ \E message \in {"", "wip"} :
       Apply(StashPush(Cur, message, NoFail), "StashPush", [pre |-> PrePush])
  /\ ops' = ops + 1
  /\ UNCHANGED <<pc, edits, kills>>

DoStashPop ==
  /\ pc = "idle" /\ ops < MaxOps
  /\ Apply(StashPop(Cur), "StashPop",
           [pre |-> IF last.op = "StashPush" /\ last.err = ""
                    THEN last.tag.pre ELSE <<>>])
  /\ ops' = ops + 1
  /\ UNCHANGED <<pc, edits, kills>>

\* the stash positions the user names on the command line
StashIndexes == -1 .. 2

DoStashApply ==
  /\ pc = "idle" /\ ops < MaxOps
  /\ \E i \in StashIndexes :
       Apply(StashApply(Cur, i), "StashApply", [index |-> i])
  /\ ops' = ops + 1
  /\ UNCHANGED <<pc, edits, kills>>

DoStashDrop ==
  /\ pc = "idle" /\ ops < MaxOps
  /\ \E i \in StashIndexes :
       Apply(StashDrop(Cur, i), "StashDrop", [index |-> i])
  /\ ops' = ops + 1
  /\ UNCHANGED <<pc, edits, kills>>

DoStashClear ==
  /\ pc = "idle" /\ ops < MaxOps
  /\ Apply(StashClear(Cur), "StashClear", NoTag)
  /\ ops' = ops + 1
  /\ UNCHANGED <<pc, edits, kills>>

\* what the user may do to one line of the generated todo list in the editor:
\* replace its action, comment it out, or cut it down to its first word
EditChoices ==
  {"pick", "p", "reword", "squash", "drop", "edit", "#", "short"}

\* the number of lines the edit e changes
RECURSIVE Changed(_)
Changed(e) ==
  IF e = <<>> THEN 0
  ELSE (IF Head(e) = "pick" THEN 0 ELSE 1) + Changed(Tail(e))

EditLine(line, choice) ==
  CASE choice = "#" -> <<"#">> \o line
    [] choice = "short" -> <<line[1]>>
    [] OTHER -> <<choice, line[2], line[3]>>

\* the edits of the todo list for a rebase onto commitHash that change n lines
TodoEdits(s, commitHash, n) ==
  LET between == IF HasCommit(s, commitHash) /\ ~ReadHeadFails(s)
                 THEN getCommitsBetween(s, commitHash, readHead(s))
                 ELSE Err(<<>>, "none")
      lines == IF between.err = "" THEN generateTodo(s, between.st) ELSE <<>>
  IN IF n = 0 THEN {[i \in 1..Len(lines) |-> "pick"]}
     ELSE {e \in [1..Len(lines) -> EditChoices] : Changed(e) = n}

\* the todo list handed back by the editor after edit e, parsed
EditedTodo(s, commitHash, e) ==
  LET lines == generateTodo(s, getCommitsBetween(s, commitHash, readHead(s)).st)
  IN IF e = <<>> THEN <<>>
     ELSE parseTodo([i \in 1..Len(lines) |-> EditLine(lines[i], e[i])])

\* the paths changed by the commit of the current step, which a cherry-pick of it
\* iterates over
StepPaths(s) ==
  IF /\ s.rebase.active
     /\ s.rebase.CurrentStep < Len(s.rebase.TodoSteps)
     /\ Len(s.rebase.TodoSteps[s.rebase.CurrentStep + 1]) >= 2
  THEN LET parts == s.rebase.TodoSteps[s.rebase.CurrentStep + 1]
       IN IF HasCommit(s, parts[2])
          THEN DOMAIN getChanges(s, FindCommit(s, parts[2]).parent, parts[2])
          ELSE {}
  ELSE {}

\* the repository and the position in RunRebaseLoop become those of result r
ApplyCmd(r, op) ==
  /\ Apply(r, op, [stepErr |-> r.stepErr, state |-> rebase])
  /\ pc' = r.pc

\* the commits the user names as the base of a rebase
BaseChoices == {<<"c", 1>>, <<"c", 2>>, UnknownId}

DoRebaseInteractive ==
  /\ pc = "idle" /\ ops < MaxStarts
  /\ \E commitHash \in BaseChoices, n \in 0..(MaxEdits - edits) :
       \E e \in TodoEdits(Cur, commitHash, n) :
         LET r == RebaseInteractive(Cur, commitHash, EditedTodo(Cur, commitHash, e))
         IN /\ Apply(r, "RebaseInteractive",
                     [stepErr |-> r.stepErr, state |-> rebase, base |-> commitHash])
            /\ pc' = r.pc
         /\ edits' = edits + n
  /\ ops' = ops + 1
  /\ UNCHANGED kills

DoRunRebaseLoop ==
  /\ pc = "loop"
  /\ Len(commits) < MaxLog
  /\ \E order \in Orders(StepPaths(Cur)), edited \in BOOLEAN :
       ApplyCmd(RunRebaseLoop(Cur, order, edited), "RunRebaseLoop")
  /\ UNCHANGED <<edits, ops, kills>>

DoRebaseContinue ==
  /\ pc = "idle"
  /\ Len(commits) < MaxLog
  /\ \E edited \in BOOLEAN :
       ApplyCmd(RebaseContinue(Cur, edited), "RebaseContinue")
  /\ UNCHANGED <<edits, ops, kills>>

DoRebaseAbort ==
  /\ pc = "idle"
  /\ Apply(RebaseAbort(Cur), "RebaseAbort", [stepErr |-> "", state |-> rebase])
  /\ UNCHANGED <<pc, edits, ops, kills>>

\* the process is terminated between two iterations of the loop
Kill ==
  /\ pc = "loop" /\ kills < MaxKills
  /\ pc' = "idle"
  /\ kills' = kills + 1
  /\ last' = [op |-> "kill", err |-> "", tag |-> NoTag]
  /\ UNCHANGED <<HEAD, refs, index, work, commits, objects, stash, rebase, edits, ops>>

(***************************************************************************)
(* Specification of reset and stash                                        *)
(***************************************************************************)
TreeOf(a, b) ==
  [p \in {q \in Paths : (q = "a" /\ a # "") \/ (q = "b" /\ b # "")} |->
     IF p = "a" THEN a ELSE b]

InitTrees == {TreeOf("1", ""), TreeOf("1", "1")}

\* a linear history on main whose i-th commit has tree ts[i]
Chain(ts) ==
  [i \in 1..Len(ts) |->
     [id |-> <<"c", i>>,
      parent |-> IF i = 1 THEN NoId ELSE <<"c", i - 1>>,
      tree |-> ts[i],
      message |-> IF i = 1 THEN "base" ELSE "c" \o ToString(i - 1)]]

WorkOf(T) == [p \in DOMAIN T |-> ReadObject(T[p])]

\* a clean checkout of branch main at the tip of Chain(ts)
InitRepo(ts) ==
  /\ commits = Chain(ts)
  /\ HEAD = SymHead(RefPath("main"))
  /\ refs = [r \in {RefPath("main")} |->
               IF Len(ts) = 0 THEN NoId ELSE <<"c", Len(ts)>>]
  /\ index = (IF Len(ts) = 0 THEN EmptyMap ELSE ts[Len(ts)])
  /\ work = (IF Len(ts) = 0 THEN EmptyMap ELSE WorkOf(ts[Len(ts)]))
  /\ objects = <<>>
  /\ stash = <<>>
  /\ rebase = NoRebase
  /\ pc = "idle"
  /\ edits = 0
  /\ ops = 0
  /\ kills = 0
  /\ last = [op |-> "init", err |-> "", tag |-> NoTag]

Init ==
  \E n \in 0..2 : \E ts \in [1..n -> InitTrees] : InitRepo(ts)

Next ==
  \/ UserWrite
  \/ UserRemove
  \/ UserAdd
  \/ DoReset
  \/ DoStashPush
  \/ DoStashPop
  \/ DoStashApply
  \/ DoStashDrop
  \/ DoStashClear

Spec == Init /\ [][Next]_vars

(***************************************************************************)
(* Specification of the interactive rebase                                 *)
(***************************************************************************)
\* linear histories base -> c1 -> c2 -> c3, as sequences of trees
RebaseHistories ==
  { <<TreeOf("3", ""), TreeOf("1", ""), TreeOf("2", ""), TreeOf("3", "")>>,
    <<TreeOf("1", "1"), TreeOf("1", ""), TreeOf("2", ""), TreeOf("2", "2")>>,
    <<TreeOf("1", "1"), TreeOf("1", "2"), TreeOf("2", "2"), TreeOf("2", "")>> }

\* a clean checkout of the tip, on branch main or detached at the tip's commit
InitRebase ==
  \E ts \in RebaseHistories, detached \in BOOLEAN :
    /\ commits = Chain(ts)
    /\ HEAD = (IF detached THEN DetachedHead(<<"c", Len(ts)>>)
               ELSE SymHead(RefPath("main")))
    /\ refs = [r \in {RefPath("main")} |-> <<"c", Len(ts)>>]
    /\ index = ts[Len(ts)]
    /\ work = WorkOf(ts[Len(ts)])
    /\ objects = <<>>
    /\ stash = <<>>
    /\ rebase = NoRebase
    /\ pc = "idle"
    /\ edits = 0
    /\ ops = 0
    /\ kills = 0
    /\ last = [op |-> "init", err |-> "", tag |-> NoTag]

NextRebase ==
  \/ DoRebaseInteractive
  \/ DoRunRebaseLoop
  \/ DoRebaseContinue
  \/ DoRebaseAbort
  \/ Kill

SpecRebase == InitRebase /\ [][NextRebase]_vars

(***************************************************************************)
(* Specification of all the commands together                              *)
(***************************************************************************)
\* reset, stash and rebase commands and the user's edits, in any order, from the
\* initial repositories of Spec
NextAll == Next \/ NextRebase

SpecAll == Init /\ [][NextAll]_vars

(***************************************************************************)
(* Properties of Reset                                                     *)
(***************************************************************************)
\* a Reset step of mode mixed or hard that met an I/O failure in resetIndex or
\* resetWorkspace
FailedResetStep ==
  /\ last'.op = "Reset"
  /\ last'.tag.fail \in {"index", "workspace"}
  /\ HasCommit(Cur, last'.tag.target)

\* C1: when resetIndex (mixed, hard) or resetWorkspace (hard) fails after HEAD
\* was overwritten with the target, Reset returns an error and HEAD holds again
\* the value it had before the call; the Index is untouched when resetIndex
\* failed, and keeps the target's tree, written by the successful resetIndex,
\* when resetWorkspace failed.
C1_ResetRollback ==
  [][FailedResetStep =>
       /\ last'.err = (IF last'.tag.fail = "index" THEN "failed to reset index"
                       ELSE "failed to reset workspace")
       /\ HEAD' = HEAD
       /\ last'.tag.fail = "index" => index' = index
       /\ last'.tag.fail = "workspace" =>
            index' = FindCommit(Cur, last'.tag.target).tree]_vars

\* a hard reset from a branch to a commit with another tree failed in
\* resetWorkspace: HEAD names the branch again, the Index holds the target's tree
C1_Witness ==
  /\ last.op = "Reset" /\ last.tag.fail = "workspace"
  /\ last.err = "failed to reset workspace"
  /\ HEAD = SymHead(RefPath("main"))
  /\ readHead(Cur) # last.tag.target
  /\ index = FindCommit(Cur, last.tag.target).tree
  /\ index # GetHeadCommit(Cur).tree

(***************************************************************************)
(* Properties of the stash manager                                         *)
(***************************************************************************)
\* StashPop ran right after a successful StashPush that started with at least one
\* commit and exactly one dirty file, tracked by the Index and present on disk
PopAfterPush ==
  /\ last.op = "StashPop"
  /\ last.tag.pre # <<>>
  /\ last.tag.pre[1].dirty \in DOMAIN last.tag.pre[1].index
  /\ last.tag.pre[1].dirty \in DOMAIN last.tag.pre[1].work

BaseId == <<"c", 1>>
C1Id == <<"c", 2>>
C2Id == <<"c", 3>>
C3Id == <<"c", 4>>

\* the todo list 'pick c1; drop c2; pick c3'
PickDropPick ==
  << <<"pick", C1Id, "c1">>, <<"drop", C2Id, "c2">>, <<"pick", C3Id, "c3">> >>

\* state is the RebaseState of the first command run on base -> c1 -> c2 -> c3, a
\* rebase onto base with the todo 'pick c1; drop c2; pick c3', never terminated
PickDropPickRun(state) ==
  /\ state.active
  /\ state.Onto = BaseId /\ state.OrigHead = C3Id
  /\ state.TodoSteps = PickDropPick
  /\ ops = 1 /\ kills = 0

\* tree T with the changes ch applied
PatchTree(T, ch) ==
  [p \in (DOMAIN T \cup {q \in DOMAIN ch : ch[q].NewHash # NoHash})
            \ {q \in DOMAIN ch : ch[q].NewHash = NoHash} |->
     IF p \in DOMAIN ch THEN ch[p].NewHash ELSE T[p]]

\* base's tree with only c1's and c3's changes applied
PickedTree ==
  PatchTree(PatchTree(FindCommit(Cur, BaseId).tree, getChanges(Cur, BaseId, C1Id)),
            getChanges(Cur, C2Id, C3Id))

\* c3 changes no path that c2 changed
C3IndependentOfC2 ==
  DOMAIN getChanges(Cur, C1Id, C2Id) \cap DOMAIN getChanges(Cur, C2Id, C3Id) = {}

\* the loop ran every step of the rebase last.tag.state and finished it: two new
\* commits on top of base, the second with base's tree plus c1's and c3's
\* changes, and the rebased branch, when there is one, pointing to it
FinishedWithTwoPicks ==
  /\ ~rebase.active
  /\ Len(commits) = 6
  /\ commits[5].parent = BaseId
  /\ commits[5].tree = FindCommit(Cur, C1Id).tree
  /\ commits[6].parent = commits[5].id
  /\ commits[6].tree = PickedTree
  /\ \A p \in DOMAIN getChanges(Cur, C1Id, C2Id) :
       Get(commits[6].tree, p) = Get(FindCommit(Cur, C1Id).tree, p)
  /\ last.tag.state.HeadName # "" =>
       /\ HEAD = SymHead(last.tag.state.HeadName)
       /\ readHead(Cur) = commits[6].id

ConflictErrors ==
  {"conflict: deleted in incoming commit, but modified in HEAD",
   "conflict: modified in incoming commit, but modified in HEAD",
   "conflict: modified in incoming commit, but deleted in HEAD"}

\* the last operation was an iteration of the loop whose step met a conflict
StoppedByConflict ==
  /\ last.op = "RunRebaseLoop"
  /\ last.tag.stepErr \in ConflictErrors

\* C6: when a pick, reword or squash step hits a cherry-pick conflict the loop
\* stops without advancing: RebaseState (step index, todo steps, onto, original
\* head, branch name) is as it was before the step, the index is that of the
\* failed step, the loop executes no later step, and a rebase is still in
\* progress.
C6_ConflictStopsLoop ==
  StoppedByConflict =>
    /\ rebase = last.tag.state
    /\ IsRebaseInProgress(Cur)
    /\ rebase.CurrentStep < Len(rebase.TodoSteps)
    /\ rebase.TodoSteps[rebase.CurrentStep + 1][1]
         \in {"pick", "p", "reword", "r", "squash", "s"}
    /\ pc = "idle"
    /\ last.err = ""

\* the second step of a rebase met a conflict, with a later step left to run
C6_Witness ==
  /\ StoppedByConflict
  /\ rebase.CurrentStep = 1
  /\ Len(rebase.TodoSteps) = 3

\* RebaseContinue was called with no rebase in progress or with no step left
ContinueWithNothingToDo ==
  \/ ~IsRebaseInProgress(Cur)
  \/ rebase.CurrentStep >= Len(rebase.TodoSteps)

\* C10: RebaseContinue fails when no rebase is in progress and when the step
\* index is not below the number of todo steps; HEAD, the branch refs, the
\* Index, the commit graph and RebaseState are left as they were.
C10_ContinueNothingToDo ==
  [][(last'.op = "RebaseContinue" /\ ContinueWithNothingToDo) =>
       /\ last'.err = (IF IsRebaseInProgress(Cur) THEN "no steps remaining"
                       ELSE "no rebase in progress")
       /\ UNCHANGED <<HEAD, refs, index, work, commits, objects, rebase>>
       /\ pc' = "idle"]_vars

\* RebaseContinue failed on a rebase whose steps were all consumed
C10_Witness ==
  /\ last.op = "RebaseContinue"
  /\ last.err = "no steps remaining"
  /\ IsRebaseInProgress(Cur)
  /\ rebase.CurrentStep = Len(rebase.TodoSteps)
  /\ HEAD = SymHead(TmpRef)

\* the todo line of the current step
CurrentParts == rebase.TodoSteps[rebase.CurrentStep + 1]

\* the loop is about to cherry-pick the commit of the current step
CherryPickStep ==
  /\ pc = "loop"
  /\ IsRebaseInProgress(Cur)
  /\ rebase.CurrentStep < Len(rebase.TodoSteps)
  /\ Len(CurrentParts) >= 2
  /\ CurrentParts[1] \in {"pick", "p", "reword", "r", "squash", "s"}
  /\ HasCommit(Cur, CurrentParts[2])

\* the changes of the commit C the current step names, against its parent P
PickedChanges ==
  getChanges(Cur, FindCommit(Cur, CurrentParts[2]).parent, CurrentParts[2])

\* the tree H of the commit HEAD points to, be it an entry of commits.log or a
\* replacement commit that reword or squash wrote to the object store
HeadTree ==
  LET h == readHead(Cur)
  IN IF HasCommit(Cur, h) THEN FindCommit(Cur, h).tree
     ELSE IF h # NoId /\ h[1] = "o" /\ h[2] \in 1..Len(objects) THEN objects[h[2]].tree
     ELSE EmptyMap

\* the change of path p writes a blob and H has another blob than the parent's, or
\* has none while the parent had one
AddModifyConflict(p) ==
  /\ PickedChanges[p].NewHash # NoHash
  /\ \/ p \in DOMAIN HeadTree /\ HeadTree[p] # PickedChanges[p].OldHash
     \/ p \notin DOMAIN HeadTree /\ PickedChanges[p].OldHash # NoHash

\* the change of path p is a deletion and H has another blob than the parent's
DeletionConflict(p) ==
  /\ PickedChanges[p].NewHash = NoHash
  /\ p \in DOMAIN HeadTree /\ HeadTree[p] # PickedChanges[p].OldHash

\* the cherry-pick failed with a conflict, created no commit and left the working
\* file and the Index entry of path p as they were
ConflictLeaves(p) ==
  /\ last'.tag.stepErr \in ConflictErrors
  /\ commits' = commits
  /\ Get(work', p) = Get(work, p)
  /\ Get(index', p) = Get(index, p)

\* C4: cherry-picking C (parent P) onto HEAD's tree H, a changed path with a new
\* blob that is in H with H[path] # old, or absent from H while old # "", makes
\* the cherry-pick fail with a conflict, with that path's working file and Index
\* entry not written and no commit created.
C4_AddModifyConflictRule ==
  [][(last'.op = "RunRebaseLoop" /\ CherryPickStep) =>
       \A p \in DOMAIN PickedChanges : AddModifyConflict(p) => ConflictLeaves(p)]_vars

\* C5: cherry-picking a deletion of a path that H holds with H[path] # old makes
\* the cherry-pick fail with a conflict; the file is neither removed from disk
\* nor dropped from the Index.
C5_DeletionConflictRule ==
  [][(last'.op = "RunRebaseLoop" /\ CherryPickStep) =>
       \A p \in DOMAIN PickedChanges : DeletionConflict(p) => ConflictLeaves(p)]_vars

\* C7: RebaseAbort on a rebase in progress leaves HEAD resolving to the original
\* head commit; if a named branch was being rebased HEAD is the symbolic ref to
\* it and the branch ref is the original head commit; the scratch branch no
\* longer exists and RebaseState is cleared.
C7_AbortRestores ==
  (last.op = "RebaseAbort" /\ last.tag.state.active) =>
    /\ last.err = ""
    /\ readHead(Cur) = last.tag.state.OrigHead
    /\ last.tag.state.HeadName # "" =>
         /\ HEAD = SymHead(last.tag.state.HeadName)
         /\ last.tag.state.HeadName \in DOMAIN refs
    /\ TmpRef \notin DOMAIN refs
    /\ ~IsRebaseInProgress(Cur)

\* C8: when the step index reaches the number of todo steps of the rebase of a
\* named branch, that branch's ref is set to the commit the scratch branch
\* points to, HEAD becomes the symbolic ref to the branch, the scratch branch is
\* deleted and RebaseState is cleared.
C8_CompletionOnBranch ==
  [][(/\ last'.op = "RunRebaseLoop"
      /\ IsRebaseInProgress(Cur)
      /\ rebase.CurrentStep >= Len(rebase.TodoSteps)
      /\ rebase.HeadName # "") =>
       /\ last'.err = ""
       /\ TmpRef \in DOMAIN refs
       /\ rebase.HeadName \in DOMAIN refs'
       /\ refs'[rebase.HeadName] = refs[TmpRef]
       /\ HEAD' = SymHead(rebase.HeadName)
       /\ TmpRef \notin DOMAIN refs'
       /\ ~rebase'.active]_vars

\* C9: RebaseContinue on the step at the current index has the effect on HEAD,
\* the refs, the Index and the commit graph that an iteration of RunRebaseLoop
\* executing that step has (for some iteration order of the changed paths and
\* some outcome of the message editor), for pick, reword, squash, drop and the
\* aliases the loop accepts.
C9_ContinueAsLoop ==
  [][(/\ last'.op = "RebaseContinue"
      /\ IsRebaseInProgress(Cur)
      /\ rebase.CurrentStep < Len(rebase.TodoSteps)
      /\ Len(CurrentParts) >= 2) =>
       \E order \in Orders(StepPaths(Cur)), edited \in BOOLEAN :
         LET r == RunRebaseLoop(Cur, order, edited)
         IN /\ HEAD' = r.st.HEAD
            /\ refs' = r.st.refs
            /\ index' = r.st.index
            /\ commits' = r.st.commits
            /\ objects' = r.st.objects]_vars

(***************************************************************************)
(* C11: a refused start leaves the repository alone                        *)
(***************************************************************************)
\* a step of kitcat rebase -i taken with a dirty working tree or with a base that
\* names no commit
StartRefused ==
  /\ last'.op = "RebaseInteractive"
  /\ (IsWorkDirDirty(Cur) \/ ~HasCommit(Cur, last'.tag.base))

\* C11: RebaseInteractive fails when the working tree is dirty or the base commit
\* cannot be resolved, and then it creates no RebaseState and no scratch branch and
\* leaves HEAD, the branch refs, the Index and the working tree as they were.
C11_RefusedStartChangesNothing ==
  [][StartRefused =>
       /\ last'.err \in {"cannot rebase: you have unstaged changes",
                          "invalid base commit"}
       /\ rebase' = rebase
       /\ TmpRef \in DOMAIN refs' <=> TmpRef \in DOMAIN refs
       /\ UNCHANGED <<HEAD, refs, index, work>>]_vars

C11_Witness ==
  /\ last.op = "RebaseInteractive"
  /\ last.err = "invalid base commit"
  /\ ~rebase.active
  /\ TmpRef \notin DOMAIN refs

(***************************************************************************)
(* C12: the commits a rebase replays                                       *)
(***************************************************************************)
\* base is reached from commit d in at most n steps along parent pointers,
\* the first step included
RECURSIVE ReachesIn(_, _, _, _)
ReachesIn(s, d, base, n) ==
  /\ n > 0
  /\ HasCommit(s, d)
  /\ LET parent == FindCommit(s, d).parent
     IN parent # NoId /\ (parent = base \/ ReachesIn(s, parent, base, n - 1))

IsProperDescendant(s, d, base) == ReachesIn(s, d, base, Len(s.commits))

\* a step of kitcat rebase -i that gets as far as listing the commits to rebase
StartListsCommits ==
  /\ last'.op = "RebaseInteractive"
  /\ ~IsWorkDirDirty(Cur)
  /\ HasCommit(Cur, last'.tag.base)
  /\ ~ReadHeadFails(Cur)
  /\ getCommitsBetween(Cur, last'.tag.base, readHead(Cur)).err = ""

\* C12: the commits to rebase are those met walking parent pointers back from HEAD
\* to the base, the base excluded, oldest first; each of them is a proper descendant
\* of the base, whatever the base and HEAD; with none to rebase the start succeeds
\* and changes nothing.
C12_ListIsBaseToHead ==
  [][StartListsCommits =>
       LET base == last'.tag.base
           hashes == getCommitsBetween(Cur, base, readHead(Cur)).st
       IN /\ \A i \in 1..Len(hashes) : IsProperDescendant(Cur, hashes[i], base)
          /\ \A i \in 1..(Len(hashes) - 1) :
               FindCommit(Cur, hashes[i + 1]).parent = hashes[i]
          /\ hashes # <<>> => hashes[Len(hashes)] = readHead(Cur)
          /\ hashes = <<>> =>
               /\ last'.err = ""
               /\ UNCHANGED <<HEAD, refs, index, work, commits, objects, stash, rebase>>]_vars

(***************************************************************************)
(* C13: what a successful start leaves for the first step                  *)
(***************************************************************************)
\* a step of kitcat rebase -i that hands over to RunRebaseLoop
StartEntersLoop ==
  /\ last'.op = "RebaseInteractive"
  /\ last'.err = ""
  /\ pc' = "loop"

\* steps are, in order, the lines of the generated todo that the editor left as
\* steps, each with the action the editor gave it
IsEditOf(step, line) ==
  \/ step = <<line[1]>>
  \/ /\ Len(step) = 3
     /\ step[1] \in EditChoices \ {"#", "short"}
     /\ step[2] = line[2]
     /\ step[3] = line[3]

\* steps from the i-th on are edits of some of the lines from the j-th on, in order
RECURSIVE ParsedFrom(_, _, _, _)
ParsedFrom(steps, lines, i, j) ==
  IF i > Len(steps) THEN TRUE
  ELSE IF j > Len(lines) THEN FALSE
  ELSE \/ IsEditOf(steps[i], lines[j]) /\ ParsedFrom(steps, lines, i + 1, j + 1)
       \/ ParsedFrom(steps, lines, i, j + 1)

\* C13: a start that succeeds with a non-empty edited todo persists RebaseState
\* {branch or empty when detached, base, HEAD's commit at the start, the parsed
\* steps in order, step index 0}, creates the scratch branch at the base and makes
\* HEAD a symbolic ref to it, all before the first step executes.
C13_StartPersistsState ==
  [][StartEntersLoop =>
       LET base == last'.tag.base
       IN /\ rebase'.active
          /\ rebase'.HeadName = (IF HEAD.ref # "" THEN HEAD.ref ELSE "")
          /\ rebase'.Onto = base
          /\ rebase'.OrigHead = readHead(Cur)
          /\ rebase'.CurrentStep = 0
          /\ rebase'.TodoSteps # <<>>
          /\ LET hashes == getCommitsBetween(Cur, base, readHead(Cur)).st
                 lines == generateTodo(Cur, hashes)
             IN ParsedFrom(rebase'.TodoSteps, lines, 1, 1)
          /\ refs' = MapSet(refs, TmpRef, base)
          /\ HEAD' = SymHead(TmpRef)
          /\ index' = FindCommit(Cur, base).tree
          /\ UNCHANGED <<commits, objects>>]_vars

C13_Witness ==
  /\ last.op = "RebaseInteractive"
  /\ pc = "loop"
  /\ rebase.active
  /\ rebase.HeadName = ""
  /\ rebase.OrigHead = C3Id
  /\ Len(rebase.TodoSteps) = 2
  /\ HEAD = SymHead(TmpRef)

(***************************************************************************)
(* C14: lifecycle of the RebaseState                                       *)
(***************************************************************************)
\* a step of kitcat rebase -i that returns nil without entering the loop: there
\* was no commit to rebase, or the edited todo had no step
StartReturnsEarly ==
  /\ last'.op = "RebaseInteractive"
  /\ last'.err = ""
  /\ pc' = "idle"

\* an iteration of RunRebaseLoop that finds no step left and finishes the rebase
LoopCompletes ==
  /\ last'.op = "RunRebaseLoop"
  /\ last'.err = ""
  /\ rebase.active
  /\ rebase.CurrentStep >= Len(rebase.TodoSteps)

AbortSucceeds == last'.op = "RebaseAbort" /\ last'.err = ""

\* C14: a rebase is in progress exactly when a RebaseState is persisted; the state
\* is created only by a successful interactive start with a non-empty todo, deleted
\* on successful completion and on abort; after an early return of the start no
\* rebase is in progress; the scratch branch exists only while the state exists.
C14_RebaseStateLifecycle ==
  [][/\ IsRebaseInProgress([Cur EXCEPT !.rebase = rebase']) <=> rebase'.active
     /\ (~rebase.active /\ rebase'.active) => StartEntersLoop
     /\ (rebase' # rebase /\ rebase'.active /\ rebase'.CurrentStep = 0) => StartEntersLoop
     /\ (rebase.active /\ ~rebase'.active) => (LoopCompletes \/ AbortSucceeds)
     /\ LoopCompletes => ~rebase'.active
     /\ AbortSucceeds => ~rebase'.active
     /\ StartReturnsEarly => ~rebase'.active
     /\ TmpRef \in DOMAIN refs' => rebase'.active]_vars

(***************************************************************************)
(* C15: a refused stash push                                               *)
(***************************************************************************)
\* a step of kitcat stash push taken when HEAD has no commit or the tree is clean
PushRefused ==
  /\ last'.op = "StashPush"
  /\ (~HeadCommitFound(Cur) \/ ~IsWorkDirDirty(Cur))

\* C15: StashPush fails with 'no commits yet' when HEAD has no commit and with
\* 'nothing to stash' when the working tree is clean; in both cases no commit is
\* appended and the stash stack, HEAD and the Index are unchanged.
C15_RefusedPushChangesNothing ==
  [][PushRefused =>
       /\ last'.err = (IF ~HeadCommitFound(Cur)
                       THEN "cannot stash: no commits yet"
                       ELSE "nothing to stash, working tree clean")
       /\ UNCHANGED <<commits, stash, HEAD, refs, index>>]_vars

C15_Witness ==
  /\ last.op = "StashPush"
  /\ last.err = "nothing to stash, working tree clean"
  /\ HeadCommitFound(Cur)
  /\ stash # <<>>

(***************************************************************************)
(* C16: a successful stash push                                            *)
(***************************************************************************)
PushSucceeds == last'.op = "StashPush" /\ last'.err = ""

\* C16: a successful StashPush appends exactly one commit, whose parent is HEAD's
\* commit at the call and whose tree is the Index after the re-hash of the tracked
\* files, puts its id at position 0 of the stash stack with the other entries
\* shifted in order, and after the hard reset HEAD resolves to the same commit as
\* before and the Index is that commit's tree.
C16_PushAppendsAndResets ==
  [][PushSucceeds =>
       LET headCommit == GetHeadCommit(Cur)
           stashCommit == commits'[Len(commits')]
           after == [Cur EXCEPT !.HEAD = HEAD', !.refs = refs', !.commits = commits']
       IN /\ Len(commits') = Len(commits) + 1
          /\ SubSeq(commits', 1, Len(commits)) = commits
          /\ ~HasCommit(Cur, stashCommit.id)
          /\ stashCommit.parent = headCommit.id
          /\ stashCommit.tree = RehashTracked(Cur)
          /\ stash' = <<stashCommit.id>> \o stash
          /\ readHead(after) = headCommit.id
          /\ GetHeadCommit(after) = headCommit
          /\ index' = headCommit.tree]_vars

C16_Witness ==
  /\ last.op = "StashPush"
  /\ last.err = ""
  /\ Len(stash) = 2
  /\ stash[1] = commits[Len(commits)].id
  /\ index = GetHeadCommit(Cur).tree

(***************************************************************************)
(* C17: stash pop                                                          *)
(***************************************************************************)
PopStep == last'.op = "StashPop"

\* after the step the Index is tree T, every file of T is in the working tree with
\* T's content, the files tracked before and absent from T are gone, and the
\* untracked files are as they were
SyncedTo(T) ==
  /\ index' = T
  /\ \A p \in DOMAIN T : p \in DOMAIN work' /\ HashOf(work'[p]) = T[p]
  /\ \A p \in DOMAIN index \ DOMAIN T : p \notin DOMAIN work'
  /\ \A p \in Paths \ (DOMAIN index \cup DOMAIN T) : Get(work', p) = Get(work, p)

\* C17: StashPop fails with 'no stash entries found' on an empty stack; it fails on a
\* dirty working tree, so that uncommitted work is not discarded; otherwise it
\* synchronizes the workspace and the Index to the top entry, and the stack
\* afterwards is the previous stack without its first entry, in unchanged order.
C17_PopTopEntry ==
  [][PopStep =>
       IF stash = <<>>
       THEN /\ last'.err = "no stash entries found"
            /\ UNCHANGED <<HEAD, refs, index, work, commits, stash>>
       ELSE IF IsWorkDirDirty(Cur)
       THEN /\ last'.err = "your local changes would be overwritten by stash pop"
            /\ UNCHANGED <<index, work>>
       ELSE /\ last'.err = ""
            /\ SyncedTo(FindCommit(Cur, Head(stash)).tree)
            /\ stash' = Tail(stash)]_vars

C17_Witness ==
  /\ last.op = "StashPop"
  /\ last.err = ""
  /\ stash # <<>>
  /\ index # GetHeadCommit(Cur).tree

(***************************************************************************)
(* C18: stash apply                                                        *)
(***************************************************************************)
ApplyStep == last'.op = "StashApply"

\* C18: StashApply(i) never changes the stash stack; on success the workspace and
\* the Index are synchronized to entry i; it fails for i < 0 or i >= the stack's
\* length and on a dirty working tree, and a failure leaves the workspace, the
\* Index and the stack unchanged.
C18_ApplyKeepsStack ==
  [][ApplyStep =>
       LET i == last'.tag.index
       IN /\ stash' = stash
          /\ last'.err # "" => UNCHANGED <<index, work>>
          /\ IF i < 0 \/ i >= Len(stash)
             THEN last'.err = "invalid stash index"
             ELSE IF IsWorkDirDirty(Cur)
             THEN last'.err = "your local changes would be overwritten by stash apply"
             ELSE /\ last'.err = ""
                  /\ SyncedTo(FindCommit(Cur, stash[i + 1]).tree)]_vars

C18_Witness ==
  /\ last.op = "StashApply"
  /\ last.err = ""
  /\ last.tag.index = 1
  /\ Len(stash) = 2
  /\ index = FindCommit(Cur, stash[2]).tree
  /\ index # FindCommit(Cur, stash[1]).tree

(***************************************************************************)
(* C19: stash drop                                                         *)
(***************************************************************************)
DropStep == last'.op = "StashDrop"

\* C19: StashDrop(i) with 0 <= i < the stack's length removes exactly entry i and
\* keeps the order of the others; with i out of range it fails and the stack is
\* unchanged; in every case HEAD, the Index, the working tree and the commit graph
\* are untouched.
C19_DropRemovesEntry ==
  [][DropStep =>
       LET i == last'.tag.index
       IN /\ UNCHANGED <<HEAD, refs, index, work, commits, objects>>
          /\ IF 0 <= i /\ i < Len(stash)
             THEN /\ last'.err = ""
                  /\ Len(stash') = Len(stash) - 1
                  /\ \A k \in 1..i : stash'[k] = stash[k]
                  /\ \A k \in (i + 1)..Len(stash') : stash'[k] = stash[k + 1]
             ELSE /\ last'.err = "invalid stash index"
                  /\ stash' = stash]_vars

C19_Witness ==
  /\ last.op = "StashDrop"
  /\ last.err = ""
  /\ last.tag.index = 1
  /\ Len(stash) = 1
  /\ stash[1] = commits[Len(commits)].id

(***************************************************************************)
(* C20: commits are immutable                                              *)
(***************************************************************************)
\* an iteration of RunRebaseLoop that executed a reword or squash step
RewriteStepDone ==
  /\ last'.op = "RunRebaseLoop"
  /\ last'.err = ""
  /\ last'.tag.stepErr = ""
  /\ rebase.active
  /\ rebase.CurrentStep < Len(rebase.TodoSteps)
  /\ Len(CurrentParts) >= 2
  /\ CurrentParts[1] \in {"reword", "r", "squash", "s"}

\* C20: across reset, stash push/pop/apply/drop/clear and rebase start, loop,
\* continue and abort, every commit keeps its id, parent, tree and message and is
\* never removed: the commit log and the object store only grow at the end; reword
\* and squash write a replacement commit and repoint the branch to it instead of
\* changing an existing commit.
C20_CommitsAppendOnly ==
  [][/\ Len(commits') >= Len(commits)
     /\ \A k \in 1..Len(commits) : commits'[k] = commits[k]
     /\ Len(objects') >= Len(objects)
     /\ \A k \in 1..Len(objects) : objects'[k] = objects[k]
     /\ RewriteStepDone =>
          LET h == readHead([Cur EXCEPT !.HEAD = HEAD', !.refs = refs'])
          IN /\ h # NoId
             /\ h[1] = "o"
             /\ h[2] \in 1..Len(objects')
             /\ ~HasCommit(Cur, h)]_vars

C20_Witness ==
  /\ last.op = "RunRebaseLoop"
  /\ last.err = ""
  /\ last.tag.stepErr = ""
  /\ last.tag.state.active
  /\ last.tag.state.CurrentStep < Len(last.tag.state.TodoSteps)
  /\ last.tag.state.TodoSteps[last.tag.state.CurrentStep + 1][1] = "reword"
  /\ objects # <<>>
  /\ stash # <<>>

(***************************************************************************)
(* C21: what a soft and a mixed reset leave alone                          *)
(***************************************************************************)
ResetDone(mode) ==
  /\ last'.op = "Reset"
  /\ last'.err = ""
  /\ last'.tag.mode = mode

\* C21: a successful soft reset changes only HEAD and leaves the Index and the
\* working tree untouched; a successful mixed reset changes HEAD and replaces the
\* Index wholesale with the target commit's tree, leaving the working tree untouched.
C21_ResetFrame ==
  [][/\ ResetDone("soft") =>
          /\ readHead([Cur EXCEPT !.HEAD = HEAD']) = last'.tag.target
          /\ UNCHANGED <<refs, index, work, commits, objects, stash, rebase>>
     /\ ResetDone("mixed") =>
          /\ readHead([Cur EXCEPT !.HEAD = HEAD']) = last'.tag.target
          /\ index' = FindCommit(Cur, last'.tag.target).tree
          /\ UNCHANGED <<refs, work, commits, objects, stash, rebase>>]_vars

C21_Witness ==
  /\ last.op = "Reset"
  /\ last.err = ""
  /\ last.tag.mode = "mixed"
  /\ index = FindCommit(Cur, last.tag.target).tree
  /\ DOMAIN work # DOMAIN index
  /\ \E p \in DOMAIN index : p \in DOMAIN work /\ HashOf(work[p]) # index[p]

(***************************************************************************)
(* C22: the commit a pick step creates                                     *)
(***************************************************************************)
\* an iteration of RunRebaseLoop that executed a step with one of the given
\* actions without error
StepDone(actions) ==
  /\ last'.op = "RunRebaseLoop"
  /\ last'.err = ""
  /\ last'.tag.stepErr = ""
  /\ rebase.active
  /\ rebase.CurrentStep < Len(rebase.TodoSteps)
  /\ Len(CurrentParts) >= 2
  /\ CurrentParts[1] \in actions

\* the repository after the step
AfterStep ==
  [Cur EXCEPT !.HEAD = HEAD', !.refs = refs', !.commits = commits',
              !.objects = objects', !.index = index', !.work = work']

\* the step appended one commit to commits.log, with HEAD's commit before the step
\* as parent, the updated Index as tree and the picked commit's message, and the
\* branch points to it
OneCommitCreated ==
  LET new == commits'[Len(commits')]
  IN /\ Len(commits') = Len(commits) + 1
     /\ new.parent = readHead(Cur)
     /\ new.tree = index'
     /\ new.message = FindCommit(Cur, CurrentParts[2]).message
     /\ readHead(AfterStep) = new.id

\* C22: every successful pick step creates exactly one new commit whose parent is
\* the HEAD commit before the step, whose tree is the updated Index and whose
\* message is the original commit's, and repoints the branch to it; a reword step
\* creates one as well, so the new commits of a conflict-free rebase are as many as
\* its executed pick and reword steps.
C22_PickCreatesOneCommit ==
  [][/\ StepDone({"pick", "p"}) => OneCommitCreated
     /\ StepDone({"reword", "r"}) => Len(commits') = Len(commits) + 1]_vars

(***************************************************************************)
(* C23: HEAD after the scratch branch is gone                              *)
(***************************************************************************)
\* C23: whenever no rebase is in progress, HEAD is not a symbolic ref to the scratch
\* branch kitcat-rebase-tmp: after a rebase started from a detached HEAD has
\* completed, and after any abort, HEAD resolves to an existing commit.
C23_HeadOffScratchWhenIdle ==
  ~rebase.active => (HEAD.ref # TmpRef /\ ~ReadHeadFails(Cur))

(***************************************************************************)
(* C24: a failed stash pop                                                 *)
(***************************************************************************)
\* C24: a failed StashPop loses no stash entry: whenever StashPop returns an error
\* (dirty working tree, stash commit not found, synchronization failure) the stash
\* stack is the stack before the call.
C24_FailedPopKeepsStack ==
  [][(PopStep /\ last'.err # "") => stash' = stash]_vars

(***************************************************************************)
(* C25: deletions that are no conflict                                     *)
(***************************************************************************)
\* the loop is about to cherry-pick a commit none of whose changes is a conflict
\* against HEAD's tree
ConflictFreePick ==
  /\ last'.op = "RunRebaseLoop"
  /\ CherryPickStep
  /\ \A p \in DOMAIN PickedChanges : ~AddModifyConflict(p) /\ ~DeletionConflict(p)

\* C25: a deletion that is no conflict (the path is absent from HEAD's tree, or
\* H[path] = old) is applied without error: the file is gone from disk and the path
\* is absent from the Index afterwards, and the cherry-pick succeeds even when the
\* path was already missing from the Index or from disk.
C25_DeletionApplied ==
  [][ConflictFreePick =>
       \A p \in DOMAIN PickedChanges :
         PickedChanges[p].NewHash = NoHash =>
           /\ last'.err = ""
           /\ last'.tag.stepErr = ""
           /\ p \notin DOMAIN index'
           /\ p \notin DOMAIN work']_vars

(***************************************************************************)
(* C26: a rebase is started only from Idle                                 *)
(***************************************************************************)
\* RebaseInteractive is called while a RebaseState is persisted
StartDuringRebase ==
  /\ last'.op = "RebaseInteractive"
  /\ IsRebaseInProgress(Cur)

\* C26: starting an interactive rebase is only possible from Idle: while a
\* RebaseState is persisted, RebaseInteractive does not overwrite the persisted
\* original head commit, head branch name, onto commit or todo steps, so a later
\* abort still restores the commit and branch of before the first start.
C26_StartOnlyFromIdle ==
  [][StartDuringRebase =>
       /\ rebase'.active
       /\ rebase'.OrigHead = rebase.OrigHead
       /\ rebase'.HeadName = rebase.HeadName
       /\ rebase'.Onto = rebase.Onto
       /\ rebase'.TodoSteps = rebase.TodoSteps]_vars

(***************************************************************************)
(* C27: the commits a rebase step points HEAD or a branch at               *)
(***************************************************************************)
\* the loop or continue has executed steps and returned without an error
RebaseStepsRan ==
  /\ last'.op \in {"RunRebaseLoop", "RebaseContinue"}
  /\ last'.err = ""
  /\ last'.tag.stepErr = ""

\* C27: every commit id a rebase step (pick, reword, squash, continue) sets HEAD or
\* a branch ref to is resolvable in the commit graph; the replacement commits of
\* reword and squash are found by FindCommit with the tree of the Index they were
\* built from, so the next step and the final branch resolve HEAD's commit.
C27_RebaseRefsResolvable ==
  [][/\ RebaseStepsRan =>
          \A r \in DOMAIN refs' :
            (r \notin DOMAIN refs \/ refs'[r] # refs[r]) => HasCommit(AfterStep, refs'[r])
     /\ RewriteStepDone =>
          /\ HeadCommitFound(AfterStep)
          /\ GetHeadCommit(AfterStep).tree = index']_vars

(***************************************************************************)
(* C28: the base stays an ancestor of the rebased HEAD                     *)
(***************************************************************************)
\* the parent recorded for an id, in the commit log or in the object store
ParentOf(s, h) ==
  IF HasCommit(s, h) THEN FindCommit(s, h).parent
  ELSE IF h # NoId /\ h[1] = "o" /\ h[2] \in 1..Len(s.objects) THEN s.objects[h[2]].parent
  ELSE NoId

RECURSIVE IsAncestor(_, _, _, _)
IsAncestor(s, base, h, n) ==
  /\ h # NoId
  /\ \/ h = base
     \/ n > 0 /\ IsAncestor(s, base, ParentOf(s, h), n - 1)

\* the loop, entered from the start or from continue, has finished the rebase
RebaseCompleted ==
  /\ last'.op \in {"RunRebaseLoop", "RebaseContinue"}
  /\ last'.err = ""
  /\ rebase.active
  /\ ~rebase'.active

\* C28: after an interactive rebase has run to completion the onto (base) commit is
\* an ancestor of the resulting HEAD commit, for every todo list, including one
\* whose first executed step is a squash.
C28_BaseIsAncestorOfResult ==
  [][RebaseCompleted =>
       IsAncestor(AfterStep, rebase.Onto, readHead(AfterStep),
                  Len(commits') + Len(objects'))]_vars

(***************************************************************************)
(* C29: what a squash step does                                            *)
(***************************************************************************)
\* the commit an id stands for, read from the commit log or, for a commit written by
\* amendCommit or amendCommitMessage, from the object store
CommitAt(s, h) ==
  IF HasCommit(s, h) THEN FindCommit(s, h)
  ELSE IF h # NoId /\ h[1] = "o" /\ h[2] \in 1..Len(s.objects)
       THEN [id |-> h, tree |-> s.objects[h[2]].tree, parent |-> s.objects[h[2]].parent,
             message |-> s.objects[h[2]].message]
  ELSE ZeroCommit

\* the commit at HEAD after the step replaces the commit at HEAD before it
SquashReplacesPrevious ==
  LET prev == CommitAt(Cur, readHead(Cur))
      new == CommitAt(AfterStep, readHead(AfterStep))
  IN /\ commits' = commits
     /\ HEAD' = HEAD
     /\ readHead(AfterStep) # NoId
     /\ new.message = prev.message \o "\n\n" \o FindCommit(Cur, CurrentParts[2]).message
     /\ new.tree = index'
     /\ new.parent = prev.parent

\* C29: a squash step applies the step commit's changes without creating a commit and
\* replaces the commit at HEAD before the step by a new commit whose message is the
\* previous message, a blank line and the squashed commit's message, whose tree is
\* the updated Index and whose parent is the previous commit's parent; the branch is
\* repointed to it, so the chain from base to HEAD does not grow.
C29_SquashFoldsIntoPrevious ==
  [][StepDone({"squash", "s"}) => SquashReplacesPrevious]_vars

\* the same over squash steps that start with HEAD's commit in the commit log
SquashFromResolvableHead ==
  [][(StepDone({"squash", "s"}) /\ HeadCommitFound(Cur)) => SquashReplacesPrevious]_vars

(***************************************************************************)
(* C30: what a reword step does                                            *)
(***************************************************************************)
\* the step's cherry-pick has appended a commit and the commit at HEAD after the step
\* carries the supplied message over that commit's tree and parent
RewordReplacesCreated ==
  LET created == commits'[Len(commits')]
      new == CommitAt(AfterStep, readHead(AfterStep))
  IN /\ Len(commits') = Len(commits) + 1
     /\ \A k \in 1..Len(commits) : commits'[k] = commits[k]
     /\ created.parent = readHead(Cur)
     /\ created.message = FindCommit(Cur, CurrentParts[2]).message
     /\ HEAD' = HEAD
     /\ readHead(AfterStep) \notin {NoId, created.id}
     /\ new.message \in {promptForMessage(created.message, e) : e \in BOOLEAN}
     /\ new.tree = created.tree
     /\ new.parent = created.parent

\* C30: a reword step cherry-picks the step's commit and then replaces the commit it
\* has just created by a new commit with the supplied message and the same tree and
\* parent, repointing the branch to it; the commit replaced is the one of this
\* step's cherry-pick, never an earlier one, and neither it nor the original commit
\* is modified.
C30_RewordReplacesOwnCommit ==
  [][StepDone({"reword", "r"}) => RewordReplacesCreated]_vars

(***************************************************************************)
(* C31: a conflict stops the cherry-pick without rollback                  *)
(***************************************************************************)
\* the conflict test of applyChanges for one changed path, against the tree it read
ConflictsWithHead(p) ==
  LET headTree == GetHeadCommit(Cur).tree
      change == PickedChanges[p]
  IN \/ p \in DOMAIN headTree /\ headTree[p] # change.OldHash
     \/ p \notin DOMAIN headTree /\ change.NewHash # NoHash /\ change.OldHash # NoHash

\* the position in the iteration order of the first path that is a conflict
FirstConflict(o) ==
  CHOOSE k \in 1..Len(o) :
    ConflictsWithHead(o[k]) /\ \A j \in 1..(k - 1) : ~ConflictsWithHead(o[j])

\* the change of path p is written in the files of t
AppliedIn(t, p) ==
  IF PickedChanges[p].NewHash = NoHash
  THEN p \notin DOMAIN t.index /\ p \notin DOMAIN t.work
  ELSE /\ Get(t.index, p) = PickedChanges[p].NewHash
       /\ Get(t.work, p) = ReadObject(PickedChanges[p].NewHash)

\* path p is in t as it is in the current files
UntouchedIn(t, p) ==
  /\ Get(t.index, p) = Get(index, p)
  /\ Get(t.work, p) = Get(work, p)

\* t is the current repository with the changes iterated before the first conflict
\* written and nothing else done
StoppedWithoutRollback(t, o) ==
  /\ t.commits = commits
  /\ t.objects = objects
  /\ t.HEAD = HEAD
  /\ t.refs = refs
  /\ t.rebase = rebase
  /\ \A j \in 1..Len(o) :
       IF j < FirstConflict(o) THEN AppliedIn(t, o[j]) ELSE UntouchedIn(t, o[j])
  /\ \A p \in (DOMAIN index \cup DOMAIN work \cup DOMAIN t.index \cup DOMAIN t.work)
                 \ DOMAIN PickedChanges : UntouchedIn(t, p)

\* a change that is no conflict and whose application alters the files
AltersFiles(q) ==
  /\ ~ConflictsWithHead(q)
  /\ IF PickedChanges[q].NewHash = NoHash THEN q \in DOMAIN index
     ELSE ~AppliedIn(Cur, q)

\* C31: any conflict aborts the whole cherry-pick without rollback: no commit is
\* created and the branch is not repointed, but the working-tree and Index writes of
\* the changes applied before the conflicting path stay applied; as the paths are
\* applied in unspecified iteration order, which paths are applied when the conflict
\* is reported is not determined by the inputs.
C31_ConflictStopsWithoutRollback ==
  CherryPickStep =>
    /\ \A o \in Orders(DOMAIN PickedChanges), edited \in BOOLEAN :
         LET r == RunRebaseLoop(Cur, o, edited)
         IN r.stepErr \in ConflictErrors => StoppedWithoutRollback(r.st, o)
    /\ \A p, q \in DOMAIN PickedChanges :
         (ConflictsWithHead(p) /\ AltersFiles(q)) =>
           \E o1, o2 \in Orders(DOMAIN PickedChanges) :
             LET r1 == RunRebaseLoop(Cur, o1, FALSE)
                 r2 == RunRebaseLoop(Cur, o2, FALSE)
             IN /\ r1.stepErr \in ConflictErrors
                /\ r2.stepErr \in ConflictErrors
                /\ r1.st.index # r2.st.index

\* the loop has stopped on a conflict with the write of another path of the same
\* commit in the Index
C31_Witness ==
  /\ last.op = "RunRebaseLoop"
  /\ last.tag.stepErr \in ConflictErrors
  /\ IsRebaseInProgress(Cur)
  /\ rebase = last.tag.state
  /\ HasCommit(Cur, CurrentParts[2])
  /\ \E p, q \in DOMAIN PickedChanges :
       /\ ConflictsWithHead(p)
       /\ ~ConflictsWithHead(q)
       /\ AppliedIn(Cur, q)
       /\ Get(index, q) # Get(GetHeadCommit(Cur).tree, q)

(***************************************************************************)
(* C32: drop steps and steps with an unrecognized action                   *)
(***************************************************************************)
\* the actions RunRebaseLoop's switch has a case for
KnownActions == {"pick", "p", "reword", "r", "squash", "s", "drop", "d"}

\* the loop executes a step whose action is drop
DropStepRuns ==
  /\ last'.op = "RunRebaseLoop"
  /\ rebase.active
  /\ rebase.CurrentStep < Len(rebase.TodoSteps)
  /\ Len(CurrentParts) >= 2
  /\ CurrentParts[1] \in {"drop", "d"}

\* the loop executes a step whose action its switch does not know
UnknownStepRuns ==
  /\ last'.op = "RunRebaseLoop"
  /\ rebase.active
  /\ rebase.CurrentStep < Len(rebase.TodoSteps)
  /\ Len(CurrentParts) >= 2
  /\ CurrentParts[1] \notin KnownActions

\* C32: a drop step and a step with an unrecognized action change neither HEAD, the
\* scratch branch, the Index, the working tree nor the commit graph; each only
\* advances the current step index by one, after which the loop continues with the
\* next step.
C32_SkippedStepOnlyAdvances ==
  [][(DropStepRuns \/ UnknownStepRuns) =>
       /\ UNCHANGED <<HEAD, refs, index, work, commits, objects, stash>>
       /\ rebase' = [rebase EXCEPT !.CurrentStep = @ + 1]
       /\ last'.err = ""
       /\ last'.tag.stepErr = ""
       /\ pc' = "loop"]_vars

\* the loop has skipped a drop step and then a step with an unknown action
C32_Witness ==
  /\ last.op = "RunRebaseLoop"
  /\ last.tag.state.active
  /\ rebase.active
  /\ rebase.CurrentStep = last.tag.state.CurrentStep + 1
  /\ rebase.CurrentStep >= 2
  /\ rebase.TodoSteps[rebase.CurrentStep][1] = "edit"
  /\ rebase.TodoSteps[rebase.CurrentStep - 1][1] = "drop"

(***************************************************************************)
(* C33: Reset detaches HEAD and leaves the branches alone                  *)
(***************************************************************************)
\* C33: Reset never modifies a branch ref: after a successful Reset in any mode the
\* HEAD file holds the literal target commit the caller passed (a detached HEAD),
\* even when HEAD named a branch before, and every branch ref points where it
\* pointed before; so a successful StashPush on a branch leaves HEAD detached at the
\* original commit and not on that branch.
C33_ResetDetachesHead ==
  [][/\ last'.op = "Reset" => refs' = refs
     /\ (last'.op = "Reset" /\ last'.err = "") =>
          HEAD' = [ref |-> "", hash |-> last'.tag.target]
     /\ PushSucceeds =>
          /\ refs' = refs
          /\ HEAD' = [ref |-> "", hash |-> readHead(Cur)]]_vars

\* the first command on branch main was a stash push: HEAD no longer names the
\* branch and holds the commit the branch still points to
C33_Witness ==
  /\ last.op = "StashPush"
  /\ last.err = ""
  /\ ops = 1
  /\ HEAD.ref = ""
  /\ HEAD.hash = refs[RefPath("main")]
  /\ Len(stash) = 1

(***************************************************************************)
(* C34: the persisted rebase state between start and end                   *)
(***************************************************************************)
\* the loop or continue has executed the current step without an error
StepExecuted ==
  /\ last'.op \in {"RunRebaseLoop", "RebaseContinue"}
  /\ last'.err = ""
  /\ last'.tag.stepErr = ""
  /\ rebase.active
  /\ rebase.CurrentStep < Len(rebase.TodoSteps)

\* the persisted state stays the one of the rebase in progress
SameRebase ==
  /\ rebase'.TodoSteps = rebase.TodoSteps
  /\ rebase'.Onto = rebase.Onto
  /\ rebase'.OrigHead = rebase.OrigHead
  /\ rebase'.HeadName = rebase.HeadName
  /\ rebase'.CurrentStep \in {rebase.CurrentStep, rebase.CurrentStep + 1}

\* C34: while a RebaseState is persisted, 0 <= current_step_index <= number of todo
\* steps; the index never decreases and grows by exactly one per executed step; and
\* todo_steps, onto_commit, original_head_commit and head_branch_name never change
\* between start and completion or abort.
C34_RebaseStateStable ==
  [][/\ rebase'.active =>
          (rebase'.CurrentStep >= 0 /\ rebase'.CurrentStep <= Len(rebase'.TodoSteps))
     /\ (rebase.active /\ rebase'.active) => SameRebase
     /\ StepExecuted => rebase'.CurrentStep = rebase.CurrentStep + 1]_vars

\* the same over every command but a start
RebaseStateStableButForStarts ==
  [][last'.op # "RebaseInteractive" =>
       /\ rebase'.active =>
            (rebase'.CurrentStep >= 0 /\ rebase'.CurrentStep <= Len(rebase'.TodoSteps))
       /\ (rebase.active /\ rebase'.active) => SameRebase
       /\ StepExecuted => rebase'.CurrentStep = rebase.CurrentStep + 1]_vars

(***************************************************************************)
(* C35: the rebase loop terminates                                         *)
(***************************************************************************)
\* RunRebaseLoop can take a step: the process is inside the loop
LoopEnabled == pc = "loop" /\ Len(commits) < MaxLog

\* continue or abort can take a step: the loop has returned with the state persisted
UserEnabled == pc = "idle" /\ rebase.active

\* an iteration of the loop is never a stuttering step
LoopStepChangesState ==
  LoopEnabled =>
    \A order \in Orders(StepPaths(Cur)), edited \in BOOLEAN :
      LET r == RunRebaseLoop(Cur, order, edited)
      IN r.pc # pc \/ r.st.rebase # rebase

\* an abort of a persisted rebase is never a stuttering step
AbortChangesState ==
  UserEnabled => (RebaseAbort(Cur).err = "" /\ ~RebaseAbort(Cur).st.rebase.active)

\* weak fairness of the loop, WF_vars(DoRunRebaseLoop), with ENABLED written out as
\* LoopEnabled: a running process keeps executing its for-loop
LoopKeepsRunning ==
  []<>(~LoopEnabled) \/ []<><<DoRunRebaseLoop>>_vars

\* weak fairness of the user's answer, WF_vars(DoRebaseContinue \/ DoRebaseAbort), with
\* ENABLED written out as UserEnabled: every stop is followed by continue or abort
UserAnswersStops ==
  []<>(~UserEnabled) \/ []<><<DoRebaseContinue \/ DoRebaseAbort>>_vars

\* the rebase commands with a process that keeps running its loop and a user who
\* answers every stop with continue or abort
SpecRebaseLive ==
  /\ InitRebase
  /\ [][NextRebase]_vars
  /\ LoopKeepsRunning
  /\ UserAnswersStops

\* the commit log has reached the length up to which runs are explored
LogFull == Len(commits) >= MaxLog

\* C35: the rebase loop terminates: from any persisted RebaseState with a finite
\* todo list RunRebaseLoop eventually either reaches the end of the list and
\* finishes the rebase (state cleared) or stops at a step that reported a conflict
\* or an error; and a rebase in which every stopped step is followed by continue or
\* abort eventually returns to Idle.
C35_LoopTerminates ==
  /\ (pc = "loop") ~> (pc = "idle" \/ LogFull)
  /\ rebase.active ~> (~rebase.active \/ LogFull)

\* a rebase of three steps has run to its end and returned to Idle
C35_Witness ==
  /\ last.op \in {"RunRebaseLoop", "RebaseContinue"}
  /\ last.err = ""
  /\ last.tag.state.active
  /\ Len(last.tag.state.TodoSteps) = 3
  /\ last.tag.state.CurrentStep = 3
  /\ ~rebase.active
  /\ pc = "idle"
  /\ ~LogFull

====
